---- MODULE Spec2Model ----
(***************************************************************************)
(* Model of the customer-support chat backend: the chat route (exchange    *)
(* handler, FAQ matcher, context assembly) and the admin route (FAQ CRUD,  *)
(* FAQ text parser, keyword extractor).                                    *)
(*                                                                         *)
(* Strings are sequences of one-character strings, so that toLowerCase,    *)
(* includes, startsWith, trim, split and the regular expressions of the    *)
(* source are computed character by character.                             *)
(***************************************************************************)
EXTENDS Integers, Sequences, FiniteSets, TLC

VARIABLES
    kw,             \* extractKeywords call: [text, out, done]
    pf,             \* parseFAQText call: [text, out, done]
    mt,             \* findRelevantFAQ call: [message, fail, result, cands, done]
    cx,             \* context assembly: [history, faqMatch, message, context, done]
    faqs,           \* the FAQ collection, in natural (insertion) order
    nextFaqId,      \* next _id the FAQ collection hands out
    adminRes,       \* status of the last response of the admin route (0: none yet)
    conversations,  \* the Conversation collection, in natural (insertion) order
    nextConvId,     \* next _id a new Conversation document gets
    apiKey,         \* whether OPENROUTER_API_KEY is configured
    req,            \* the in-flight POST / requests, one record per slot
    started         \* number of POST / requests received so far

vars == <<kw, pf, mt, cx, faqs, nextFaqId, adminRes, conversations, nextConvId, apiKey, req, started>>

(***************************************************************************)
(* Strings                                                                 *)
(***************************************************************************)

UpperLetters == <<"A","B","C","D","E","F","G","H","I","J","K","L","M",
                  "N","O","P","Q","R","S","T","U","V","W","X","Y","Z">>

LowerLetters == <<"a","b","c","d","e","f","g","h","i","j","k","l","m",
                  "n","o","p","q","r","s","t","u","v","w","x","y","z">>

Digits == <<"0","1","2","3","4","5","6","7","8","9">>

Range(s) == { s[i] : i \in 1..Len(s) }

Min(a, b) == IF a < b THEN a ELSE b

Max(a, b) == IF a < b THEN b ELSE a

\* String.prototype.toLowerCase, one character
LowerChar(c) ==
    IF \E i \in 1..Len(UpperLetters) : UpperLetters[i] = c
    THEN LowerLetters[CHOOSE i \in 1..Len(UpperLetters) : UpperLetters[i] = c]
    ELSE c

\* String.prototype.toLowerCase
ToLowerCase(s) == [i \in 1..Len(s) |-> LowerChar(s[i])]

\* the regular expression class \w
IsWordChar(c) == c \in Range(UpperLetters) \cup Range(LowerLetters) \cup Range(Digits) \cup {"_"}

\* the regular expression class \s (also what trim removes)
IsSpace(c) == c \in {" ", "\n", "\t"}

\* String.prototype.startsWith
StartsWith(s, p) == Len(s) >= Len(p) /\ SubSeq(s, 1, Len(p)) = p

\* String.prototype.includes
Includes(s, p) == \E i \in 0..(Len(s) - Len(p)) : SubSeq(s, i + 1, i + Len(p)) = p

RECURSIVE TrimStart(_)
TrimStart(s) == IF s # <<>> /\ IsSpace(Head(s)) THEN TrimStart(Tail(s)) ELSE s

RECURSIVE TrimEnd(_)
TrimEnd(s) ==
    IF s # <<>> /\ IsSpace(s[Len(s)]) THEN TrimEnd(SubSeq(s, 1, Len(s) - 1)) ELSE s

\* String.prototype.trim
Trim(s) == TrimEnd(TrimStart(s))

\* String.prototype.split with a one-character separator: always at least one piece
RECURSIVE SplitChar(_, _)
SplitChar(s, sep) ==
    IF \E i \in 1..Len(s) : s[i] = sep
    THEN LET i == CHOOSE k \in 1..Len(s) : s[k] = sep /\ \A j \in 1..(k - 1) : s[j] # sep
         IN  <<SubSeq(s, 1, i - 1)>> \o SplitChar(SubSeq(s, i + 1, Len(s)), sep)
    ELSE <<s>>

\* String.prototype.split(/\s+/): a run of white space is one separator; a leading or
\* trailing run leaves an empty piece, and the empty string gives one empty piece
RECURSIVE SplitSpaces(_)
SplitSpaces(s) ==
    IF \E i \in 1..Len(s) : IsSpace(s[i])
    THEN LET i == CHOOSE k \in 1..Len(s) : IsSpace(s[k]) /\ \A j \in 1..(k - 1) : ~IsSpace(s[j])
         IN  <<SubSeq(s, 1, i - 1)>> \o SplitSpaces(TrimStart(SubSeq(s, i, Len(s))))
    ELSE <<s>>

\* Array.prototype.join
RECURSIVE Join(_, _)
Join(ss, sep) ==
    IF ss = <<>> THEN <<>>
    ELSE IF Len(ss) = 1 THEN ss[1]
    ELSE ss[1] \o sep \o Join(Tail(ss), sep)

\* [...new Set(xs)]: the distinct elements in first-seen order
RECURSIVE Unique(_)
Unique(xs) ==
    IF xs = <<>> THEN <<>>
    ELSE LET init == Unique(SubSeq(xs, 1, Len(xs) - 1))
             last == xs[Len(xs)]
         IN  IF last \in Range(init) THEN init ELSE Append(init, last)

\* Array.prototype.slice(0, n)
Slice0(xs, n) == SubSeq(xs, 1, Min(n, Len(xs)))

\* Array.prototype.slice(-n)
SliceLast(xs, n) == SubSeq(xs, Max(1, Len(xs) - n + 1), Len(xs))

(***************************************************************************)
(* extractKeywords                                                         *)
(***************************************************************************)

KeywordCap == 10

StopWords ==
    { <<"t","h","e">>, <<"a","n","d">>, <<"o","r">>, <<"b","u","t">>, <<"i","n">>,
      <<"o","n">>, <<"a","t">>, <<"t","o">>, <<"f","o","r">>, <<"o","f">>,
      <<"w","i","t","h">>, <<"b","y">> }

\* text.toLowerCase().replace(/[^\w\s]/g, '').split(/\s+/)
KeywordSplit(text) ==
    SplitSpaces(SelectSeq(ToLowerCase(text), LAMBDA c : IsWordChar(c) \/ IsSpace(c)))

\* the two filters: length > 2, not a stop word
KeywordWords(text) ==
    SelectSeq(SelectSeq(KeywordSplit(text), LAMBDA w : Len(w) > 2),
              LAMBDA w : w \notin StopWords)

ExtractKeywords_NoDedupe(text) == Slice0(KeywordWords(text), KeywordCap)

ExtractKeywords(text) == Slice0(Unique(KeywordWords(text)), KeywordCap)

(***************************************************************************)
(* parseFAQText                                                            *)
(***************************************************************************)

QPrefix == <<"q", ":">>

QuestionPrefix == <<"q","u","e","s","t","i","o","n",":">>

APrefix == <<"a", ":">>

AnswerPrefix == <<"a","n","s","w","e","r",":">>

\* text.split('\n').map(line => line.trim()).filter(line => line)
FaqLines(text) ==
    LET raw == SplitChar(text, "\n")
    IN  SelectSeq([i \in 1..Len(raw) |-> Trim(raw[i])], LAMBDA l : l # <<>>)

\* line.toLowerCase().startsWith('q:') || line.toLowerCase().startsWith('question:')
IsQLine(line) ==
    StartsWith(ToLowerCase(line), QPrefix) \/ StartsWith(ToLowerCase(line), QuestionPrefix)

\* line.toLowerCase().startsWith('a:') || line.toLowerCase().startsWith('answer:')
IsALine(line) ==
    StartsWith(ToLowerCase(line), APrefix) \/ StartsWith(ToLowerCase(line), AnswerPrefix)

\* line.replace(/^(q:|question:)/i, '').trim()
StripQ(line) ==
    LET low == ToLowerCase(line)
        n == IF StartsWith(low, QPrefix) THEN Len(QPrefix)
             ELSE IF StartsWith(low, QuestionPrefix) THEN Len(QuestionPrefix) ELSE 0
    IN  Trim(SubSeq(line, n + 1, Len(line)))

\* line.replace(/^(a:|answer:)/i, '').trim()
StripA(line) ==
    LET low == ToLowerCase(line)
        n == IF StartsWith(low, APrefix) THEN Len(APrefix)
             ELSE IF StartsWith(low, AnswerPrefix) THEN Len(AnswerPrefix) ELSE 0
    IN  Trim(SubSeq(line, n + 1, Len(line)))

\* faqs = [], currentQuestion = '', currentAnswer = '', isAnswer = false
ParseStart == [faqs |-> <<>>, currentQuestion |-> <<>>, currentAnswer |-> <<>>, isAnswer |-> FALSE]

\* if (currentQuestion && currentAnswer) faqs.push({question: ..trim(), answer: ..trim()})
ParseFlush(st) ==
    IF st.currentQuestion # <<>> /\ st.currentAnswer # <<>>
    THEN Append(st.faqs, [question |-> Trim(st.currentQuestion), answer |-> Trim(st.currentAnswer)])
    ELSE st.faqs

\* a plausible slip: the answer of the previous pair is not reset at a new question
ParseStep_KeepsAnswer(st, line) ==
    IF IsQLine(line)
    THEN [faqs |-> ParseFlush(st), currentQuestion |-> StripQ(line),
          currentAnswer |-> st.currentAnswer, isAnswer |-> FALSE]
    ELSE IF IsALine(line)
    THEN [st EXCEPT !.currentAnswer = StripA(line), !.isAnswer = TRUE]
    ELSE IF st.isAnswer
    THEN [st EXCEPT !.currentAnswer = @ \o <<" ">> \o line]
    ELSE IF st.currentQuestion # <<>>
    THEN [st EXCEPT !.currentQuestion = @ \o <<" ">> \o line]
    ELSE st

\* the body of the loop over the lines
ParseStep(st, line) ==
    IF IsQLine(line)
    THEN [faqs |-> ParseFlush(st), currentQuestion |-> StripQ(line),
          currentAnswer |-> <<>>, isAnswer |-> FALSE]
    ELSE IF IsALine(line)
    THEN [st EXCEPT !.currentAnswer = StripA(line), !.isAnswer = TRUE]
    ELSE IF st.isAnswer
    THEN [st EXCEPT !.currentAnswer = @ \o <<" ">> \o line]
    ELSE IF st.currentQuestion # <<>>
    THEN [st EXCEPT !.currentQuestion = @ \o <<" ">> \o line]
    ELSE st

RECURSIVE ParseLoop(_, _)
ParseLoop(st, lines) ==
    IF lines = <<>> THEN st ELSE ParseLoop(ParseStep(st, Head(lines)), Tail(lines))

ParseFAQText(text) == ParseFlush(ParseLoop(ParseStart, FaqLines(text)))

(***************************************************************************)
(* The FAQ collection and findRelevantFAQ                                  *)
(*                                                                         *)
(* An optional value (null or a document) is a sequence of length 0 or 1.  *)
(***************************************************************************)

CandidateLimit == 10

\* FAQ.find({ isActive: true }): the positions of the active entries
ActiveFaqs(store) == { i \in 1..Len(store) : store[i].isActive }

\* .sort({ priority: -1 }): every order of the positions in S by descending priority;
\* the order among entries of equal priority is not specified by the store
RECURSIVE SortedByPriority(_, _)
SortedByPriority(store, S) ==
    IF S = {} THEN { <<>> }
    ELSE LET top == { i \in S : \A j \in S : store[j].priority <= store[i].priority }
         IN  UNION { { <<i>> \o rest : rest \in SortedByPriority(store, S \ {i}) } : i \in top }

\* FAQ.find({ isActive: true }).sort({ priority: -1 }).limit(10): the possible results
FaqCandidates(store) ==
    { [k \in 1..Len(Slice0(c, CandidateLimit)) |-> store[c[k]]] :
        c \in SortedByPriority(store, ActiveFaqs(store)) }

\* the condition of the if inside the loop
FaqMatches(message, faq) ==
    LET messageLower == ToLowerCase(message)
        questionLower == ToLowerCase(faq.question)
        keywords == [k \in 1..Len(faq.keywords) |-> ToLowerCase(faq.keywords[k])]
    IN  \/ \E k \in 1..Len(keywords) : Includes(messageLower, keywords[k])
        \/ Includes(messageLower, questionLower)
        \/ Includes(questionLower, messageLower)

\* a plausible slip: the loop keeps looking and returns the last match
ScanFaqs_LastMatch(message, cands) ==
    LET hits == { i \in 1..Len(cands) : FaqMatches(message, cands[i]) }
    IN  IF hits = {} THEN <<>>
        ELSE <<cands[CHOOSE i \in hits : \A j \in hits : j <= i]>>

\* for (const faq of faqs) { if (...) return faq; } return null;
ScanFaqs(message, cands) ==
    LET hits == { i \in 1..Len(cands) : FaqMatches(message, cands[i]) }
    IN  IF hits = {} THEN <<>>
        ELSE <<cands[CHOOSE i \in hits : \A j \in hits : i <= j]>>

\* what FAQ.find gives: a rejection, or one of the possible candidate lists
LookupFailed == [ok |-> FALSE, docs |-> <<>>]

LookupOutcomes(store) == { [ok |-> TRUE, docs |-> c] : c \in FaqCandidates(store) }

\* a plausible slip: no try/catch, the rejection reaches the caller
FindRelevantFAQ_Rethrows(message, lookup) ==
    IF lookup.ok
    THEN [threw |-> FALSE, faq |-> ScanFaqs(message, lookup.docs)]
    ELSE [threw |-> TRUE, faq |-> <<>>]

\* findRelevantFAQ: threw says whether the call rejected, faq is the value returned
FindRelevantFAQ(message, lookup) ==
    IF lookup.ok
    THEN [threw |-> FALSE, faq |-> ScanFaqs(message, lookup.docs)]
    ELSE [threw |-> FALSE, faq |-> <<>>]

(***************************************************************************)
(* Context assembly                                                        *)
(***************************************************************************)

WindowSize == 10

\* SYSTEM_PROMPT, abbreviated
SYSTEM_PROMPT == <<"Y","o","u"," ","a","r","e"," ","a"," ","h","e","l","p","f","u","l">>

RelevantFaqQ == <<"R","e","l","e","v","a","n","t"," ","F","A","Q",":"," ","Q",":"," ">>

RelevantFaqA == <<" ","A",":"," ">>

\* `Relevant FAQ: Q: ${faqMatch.question} A: ${faqMatch.answer}`
FaqContext(faq) == RelevantFaqQ \o faq.question \o RelevantFaqA \o faq.answer

\* a plausible slip: slice(10) for slice(-10)
BuildContext_SliceHead(faqMatch, messages) ==
    <<[role |-> "system", content |-> SYSTEM_PROMPT]>>
    \o (IF faqMatch # <<>>
        THEN <<[role |-> "system", content |-> FaqContext(faqMatch[1])]>>
        ELSE <<>>)
    \o [i \in 1..Len(Slice0(messages, WindowSize)) |->
          [role |-> Slice0(messages, WindowSize)[i].role,
           content |-> Slice0(messages, WindowSize)[i].content]]

\* a plausible slip: the context is built before the user message is pushed
BuildContext_BeforeAppend(faqMatch, messages) ==
    <<[role |-> "system", content |-> SYSTEM_PROMPT]>>
    \o (IF faqMatch # <<>>
        THEN <<[role |-> "system", content |-> FaqContext(faqMatch[1])]>>
        ELSE <<>>)
    \o [i \in 1..Len(SliceLast(SubSeq(messages, 1, Len(messages) - 1), WindowSize)) |->
          [role |-> SliceLast(SubSeq(messages, 1, Len(messages) - 1), WindowSize)[i].role,
           content |-> SliceLast(SubSeq(messages, 1, Len(messages) - 1), WindowSize)[i].content]]

\* const messages = [ system, ...(faqMatch ? [faq] : []), ...history.slice(-10).map(..) ]
BuildContext(faqMatch, messages) ==
    <<[role |-> "system", content |-> SYSTEM_PROMPT]>>
    \o (IF faqMatch # <<>>
        THEN <<[role |-> "system", content |-> FaqContext(faqMatch[1])]>>
        ELSE <<>>)
    \o [i \in 1..Len(SliceLast(messages, WindowSize)) |->
          [role |-> SliceLast(messages, WindowSize)[i].role,
           content |-> SliceLast(messages, WindowSize)[i].content]]

(***************************************************************************)
(* The admin route: upload, create, update and delete of FAQ entries       *)
(*                                                                         *)
(* An absent body field (undefined) is the empty sequence, a present one   *)
(* a sequence of length 1; an absent priority is 0.                        *)
(***************************************************************************)

General == <<"G","e","n","e","r","a","l">>

Uploaded == <<"U","p","l","o","a","d","e","d">>

Undefined == <<"u","n","d","e","f","i","n","e","d">>

\* what string concatenation makes of a body field
JsString(opt) == IF opt = <<>> THEN Undefined ELSE opt[1]

\* !x of a body field holding a string: undefined and '' are falsy
Falsy(opt) == opt = <<>> \/ opt[1] = <<>>

\* the FAQ schema: keywords are stored lower-cased, category defaults to 'General',
\* priority to 1, isActive to true
NewFAQ(id, question, answer, category, keywords, priority) ==
    [id |-> id, question |-> question, answer |-> answer,
     category |-> IF category = <<>> THEN General ELSE category[1],
     keywords |-> [k \in 1..Len(keywords) |-> ToLowerCase(keywords[k])],
     priority |-> IF priority = 0 THEN 1 ELSE priority,
     isActive |-> TRUE]

\* the FAQ schema: priority is between 1 and 10
ValidFAQ(faq) == faq.priority >= 1 /\ faq.priority <= 10

\* the documents router.post('/upload-faqs') builds from the parsed pairs
RECURSIVE UploadedFaqs(_, _, _)
UploadedFaqs(pairs, category, id) ==
    IF pairs = <<>> THEN <<>>
    ELSE <<NewFAQ(id, Head(pairs).question, Head(pairs).answer,
                  IF Falsy(category) THEN <<Uploaded>> ELSE category,
                  ExtractKeywords(Head(pairs).question \o <<" ">> \o Head(pairs).answer), 0)>>
         \o UploadedFaqs(Tail(pairs), category, id + 1)

\* router.post('/upload-faqs'): file is the text of the uploaded file, if any (for a
\* PDF, the text pdfParse extracts); the saves of one upload are taken as one step
UploadFaqs(file, category) ==
    /\ adminRes' = IF file = <<>> THEN 400 ELSE 200
    /\ LET docs == IF file = <<>> THEN <<>>
                   ELSE UploadedFaqs(ParseFAQText(file[1]), category, nextFaqId)
       IN  /\ faqs' = faqs \o docs
           /\ nextFaqId' = nextFaqId + Len(docs)

\* the document router.post('/faqs') builds
CreatedFaq(id, body) ==
    NewFAQ(id, body.question[1], body.answer[1],
           IF Falsy(body.category) THEN <<General>> ELSE body.category,
           IF body.keywords # <<>> THEN body.keywords[1]
           ELSE ExtractKeywords(body.question[1] \o <<" ">> \o body.answer[1]),
           IF body.priority = 0 THEN 1 ELSE body.priority)

\* router.post('/faqs')
CreateFaq(body) ==
    IF Falsy(body.question) \/ Falsy(body.answer)
    THEN /\ adminRes' = 400
         /\ UNCHANGED <<faqs, nextFaqId>>
    ELSE IF ~ValidFAQ(CreatedFaq(nextFaqId, body))
    THEN /\ adminRes' = 500
         /\ nextFaqId' = nextFaqId + 1
         /\ UNCHANGED faqs
    ELSE /\ adminRes' = 201
         /\ faqs' = Append(faqs, CreatedFaq(nextFaqId, body))
         /\ nextFaqId' = nextFaqId + 1

\* the update document of FAQ.findByIdAndUpdate: an undefined field is left as it is
UpdatedFaq(faq, body) ==
    [faq EXCEPT
        !.question = IF body.question = <<>> THEN @ ELSE body.question[1],
        !.answer = IF body.answer = <<>> THEN @ ELSE body.answer[1],
        !.category = IF body.category = <<>> THEN @ ELSE body.category[1],
        !.priority = IF body.priority = 0 THEN @ ELSE body.priority,
        !.isActive = IF body.isActive = <<>> THEN @ ELSE body.isActive[1],
        !.keywords = ExtractKeywords(JsString(body.question) \o <<" ">> \o JsString(body.answer))]

\* router.put('/faqs/:id')
UpdateFaq(id, body) ==
    /\ adminRes' = IF \E i \in 1..Len(faqs) : faqs[i].id = id THEN 200 ELSE 404
    /\ faqs' = [i \in 1..Len(faqs) |->
                  IF faqs[i].id = id THEN UpdatedFaq(faqs[i], body) ELSE faqs[i]]
    /\ UNCHANGED nextFaqId

\* router.delete('/faqs/:id')
DeleteFaq(id) ==
    /\ adminRes' = IF \E i \in 1..Len(faqs) : faqs[i].id = id THEN 200 ELSE 404
    /\ faqs' = SelectSeq(faqs, LAMBDA f : f.id # id)
    /\ UNCHANGED nextFaqId

(***************************************************************************)
(* The chat route: router.post('/')                                        *)
(*                                                                         *)
(* One request runs from await to await; each step below is the code       *)
(* between two awaits, taken when the awaited call returns.                *)
(*   pc = "idle"     no request in the slot (res holds the last response)  *)
(*   pc = "findOne"  awaiting Conversation.findOne                         *)
(*   pc = "faqFind"  user message appended, awaiting findRelevantFAQ       *)
(*   pc = "fetch"    context built, awaiting the completion API            *)
(*   pc = "save"     reply appended, awaiting conversation.save            *)
(***************************************************************************)

Slots == {"a", "b"}

TitleMax == 50

Ellipsis == <<".", ".", ".">>

NoResponse == [status |-> 0, response |-> <<>>, conversationId |-> 0]

IdleReq ==
    [pc |-> "idle", seq |-> 0, message |-> <<>>, userId |-> <<>>, sessionId |-> <<>>,
     conversation |-> <<>>, faqFailed |-> FALSE, faqMatch |-> <<>>, context |-> <<>>,
     completion |-> <<>>, res |-> NoResponse]

\* the handler has answered: its locals are gone, the slot holds the response
Finished(res) == [IdleReq EXCEPT !.res = res]

\* res.status(..).json({ error: .. })
ErrorResponse(status) == [status |-> status, response |-> <<>>, conversationId |-> 0]

\* new Conversation({ userId, sessionId, messages: [] }); loaded counts the messages
\* the document held when it was read, titleSet whether title was assigned since
NewConversation(id, userId, sessionId) ==
    [id |-> id, isNew |-> TRUE, userId |-> userId, sessionId |-> sessionId,
     messages |-> <<>>, title |-> <<>>, loaded |-> 0, titleSet |-> FALSE]

\* the document as Conversation.findOne hands it over
LoadedConversation(doc) ==
    [id |-> doc.id, isNew |-> FALSE, userId |-> doc.userId, sessionId |-> doc.sessionId,
     messages |-> doc.messages, title |-> doc.title, loaded |-> Len(doc.messages),
     titleSet |-> FALSE]

\* Conversation.findOne({ userId, sessionId }): the positions it may return
FindOne(userId, sessionId) ==
    { i \in 1..Len(conversations) :
        conversations[i].userId = userId /\ conversations[i].sessionId = sessionId }

\* a plausible slip: the reply is stored with the role of the sender of the request
PushMessage_UserRole(conv, role, content, now) ==
    [conv EXCEPT !.messages =
        Append(@, [role |-> "user", content |-> content, timestamp |-> now])]

\* conversation.messages.push({ role, content, timestamp: new Date() }); the clock
\* reading is abstracted to the number of the request
PushMessage(conv, role, content, now) ==
    [conv EXCEPT !.messages =
        Append(@, [role |-> role, content |-> content, timestamp |-> now])]

\* a plausible slip: >= 2 for === 2
AssignTitle_AtLeastTwo(conv, message) ==
    IF Len(conv.messages) >= 2
    THEN [conv EXCEPT !.title = <<IF Len(message) > TitleMax
                                  THEN SubSeq(message, 1, TitleMax) \o Ellipsis
                                  ELSE message>>,
                      !.titleSet = TRUE]
    ELSE conv

\* if (conversation.messages.length === 2) conversation.title = ...
AssignTitle(conv, message) ==
    IF Len(conv.messages) = 2
    THEN [conv EXCEPT !.title = <<IF Len(message) > TitleMax
                                  THEN SubSeq(message, 1, TitleMax) \o Ellipsis
                                  ELSE message>>,
                      !.titleSet = TRUE]
    ELSE conv

\* conversation.save(): a new document is inserted; for a stored one the pushed
\* messages are appended to the stored array and a modified title is set
PersistConversation(convs, conv) ==
    IF conv.isNew
    THEN Append(convs, [id |-> conv.id, userId |-> conv.userId, sessionId |-> conv.sessionId,
                        messages |-> conv.messages, title |-> conv.title])
    ELSE [i \in 1..Len(convs) |->
            IF convs[i].id = conv.id
            THEN [convs[i] EXCEPT
                    !.messages = @ \o SubSeq(conv.messages, conv.loaded + 1, Len(conv.messages)),
                    !.title = IF conv.titleSet THEN conv.title ELSE @]
            ELSE convs[i]]

\* !(!completion.choices || !completion.choices[0] || !completion.choices[0].message)
IsValidCompletion(c) ==
    /\ c.choices # <<>>
    /\ c.choices[1] # <<>>
    /\ c.choices[1][1].message # <<>>

\* completion.choices[0].message.content
CompletionContent(c) == c.choices[1][1].message[1].content

\* lines 29-40: validation, then the query is issued
Receive(r, body) ==
    /\ req[r].pc = "idle"
    /\ started' = started + 1
    /\ req' = [req EXCEPT ![r] =
         IF Falsy(body.message) \/ Falsy(body.userId) \/ Falsy(body.sessionId)
         THEN Finished(ErrorResponse(400))
         ELSE IF ~apiKey
         THEN Finished(ErrorResponse(500))
         ELSE [IdleReq EXCEPT !.pc = "findOne", !.seq = started + 1,
                              !.message = body.message[1], !.userId = body.userId[1],
                              !.sessionId = body.sessionId[1]]]
    /\ UNCHANGED <<conversations, nextConvId>>

\* lines 40-58: the conversation is found or made, the user message pushed, and
\* findRelevantFAQ called
FindOneReturns(r) ==
    /\ req[r].pc = "findOne"
    /\ LET found == FindOne(req[r].userId, req[r].sessionId)
       IN  \/ /\ found = {}
              /\ req' = [req EXCEPT ![r].pc = "faqFind",
                     ![r].conversation =
                        <<PushMessage(NewConversation(nextConvId, req[r].userId, req[r].sessionId),
                                      "user", req[r].message, req[r].seq)>>]
              /\ nextConvId' = nextConvId + 1
           \/ /\ \E i \in found :
                   req' = [req EXCEPT ![r].pc = "faqFind",
                     ![r].conversation =
                        <<PushMessage(LoadedConversation(conversations[i]),
                                      "user", req[r].message, req[r].seq)>>]
              /\ UNCHANGED nextConvId
    /\ UNCHANGED <<conversations, started>>

\* Conversation.findOne rejects: the catch answers 500
FindOneFails(r) ==
    /\ req[r].pc = "findOne"
    /\ req' = [req EXCEPT ![r] = Finished(ErrorResponse(500))]
    /\ UNCHANGED <<conversations, nextConvId, started>>

\* lines 58-71: findRelevantFAQ returns, the context is built and sent
FaqFindReturns(r, lookup) ==
    /\ req[r].pc = "faqFind"
    /\ LET found == FindRelevantFAQ(req[r].message, lookup)
       IN  req' = [req EXCEPT ![r] =
             IF found.threw
             THEN Finished(ErrorResponse(500))
             ELSE [@ EXCEPT !.pc = "fetch", !.faqFailed = ~lookup.ok,
                            !.faqMatch = found.faq,
                            !.context = BuildContext(found.faq, req[r].conversation[1].messages)]]
    /\ UNCHANGED <<conversations, nextConvId, started>>

\* lines 88-114: the completion arrives; a rejected fetch, a non-ok status and a
\* malformed body throw, otherwise the reply is pushed, the title set, and save called
CompletionReturns(r, c) ==
    /\ req[r].pc = "fetch"
    /\ req' = [req EXCEPT ![r] =
         IF c.rejected \/ ~c.ok \/ ~IsValidCompletion(c)
         THEN Finished(ErrorResponse(500))
         ELSE [@ EXCEPT !.pc = "save", !.completion = <<c>>,
                        !.conversation =
                           <<AssignTitle(PushMessage(@[1], "assistant", CompletionContent(c),
                                                     req[r].seq),
                                         req[r].message)>>]]
    /\ UNCHANGED <<conversations, nextConvId, started>>

\* lines 114-121: save returns, the reply is sent
SaveReturns(r) ==
    /\ req[r].pc = "save"
    /\ conversations' = PersistConversation(conversations, req[r].conversation[1])
    /\ req' = [req EXCEPT ![r] =
                 Finished([status |-> 200,
                           response |-> <<CompletionContent(req[r].completion[1])>>,
                           conversationId |-> req[r].conversation[1].id])]
    /\ UNCHANGED <<nextConvId, started>>

\* conversation.save rejects: the catch answers 500
SaveFails(r) ==
    /\ req[r].pc = "save"
    /\ req' = [req EXCEPT ![r] = Finished(ErrorResponse(500))]
    /\ UNCHANGED <<conversations, nextConvId, started>>

(***************************************************************************)
(* Bounds and inputs                                                       *)
(***************************************************************************)

MaxKwLen == 4

MaxWords == 12

MaxLines == 4

MaxFill == 10

MaxHistory == 6

MaxFaqIds == 2

MaxExchanges == 3

SeqsUpTo(S, n) == UNION { [1..k -> S] : k \in 0..n }

\* extractKeywords: every short text over a few characters, and word lists long
\* enough to pass the cap
KwAlphabet == {"t", "H", "e", " ", "!"}

Word(i) == <<"w", Digits[(i \div 10) + 1], Digits[(i % 10) + 1]>>

KwPrefixes ==
    { <<>>,
      <<"T","h","e"," ","w","0","1",","," ","W","0","2","!"," ","o","f"," ">>,
      <<" ","w","0","3","\t","w","_","3"," ","w","0","3","\n">> }

KwInputs ==
    SeqsUpTo(KwAlphabet, MaxKwLen)
    \cup { p \o Join([i \in 1..n |-> Word(i)], <<" ">>) : p \in KwPrefixes, n \in 0..MaxWords }

\* parseFAQText: every text of a few lines of these kinds
PfLineKinds ==
    { <<"Q",":"," ","x">>,
      <<"q",":">>,
      <<"Q","u","e","s","t","i","o","n",":","y"," ">>,
      <<" ","A",":"," ","z">>,
      <<"a",":">>,
      <<"A","N","S","W","E","R",":"," ","v">>,
      <<"w">>,
      <<" ">> }

PfInputs == { Join(ls, <<"\n">>) : ls \in SeqsUpTo(PfLineKinds, MaxLines) }

\* findRelevantFAQ: a store of filler entries of distinct priorities that match no
\* message, followed by two entries of the kinds below
Filler(i) ==
    [id |-> i, question |-> <<"f">> \o Word(i), answer |-> <<"n","o">>, category |-> General,
     keywords |-> <<<<"k">> \o Word(i)>>, priority |-> ((i - 1) % 10) + 1, isActive |-> TRUE]

MtQuestions == { <<"H","o","w"," ","t","o"," ","r","e","s","e","t","?">>, <<"p","w">> }

MtKeywordLists == { <<>>, <<<<"r","e","s","e","t">>, <<"p","w">>>> }

MtKinds ==
    { [question |-> q, keywords |-> k, priority |-> p, isActive |-> a] :
        q \in MtQuestions, k \in MtKeywordLists, p \in {1, 10}, a \in BOOLEAN }

MtEntry(id, kind) ==
    [id |-> id, question |-> kind.question, answer |-> <<"o","k">>, category |-> General,
     keywords |-> kind.keywords, priority |-> kind.priority, isActive |-> kind.isActive]

MtStores ==
    { [i \in 1..n |-> Filler(i)] \o <<MtEntry(n + 1, k1), MtEntry(n + 2, k2)>> :
        n \in 0..MaxFill, k1 \in MtKinds, k2 \in MtKinds }

MtMessages ==
    { <<"K","W","1","0"," ","R","e","s","e","t">>, <<"h","o","w"," ","t","o">>,
      <<"m","y"," ","P","W">>, <<"z","z","z">> }

\* context assembly: histories as the chat route leaves them (user and assistant in
\* turn) with the current user message pushed
CxMessage(i, c) ==
    [role |-> IF i % 2 = 1 THEN "user" ELSE "assistant",
     content |-> [j \in 1..i |-> c], timestamp |-> i]

CxHistories ==
    { [i \in 1..(2 * n + 1) |-> CxMessage(i, c)] : n \in 0..MaxHistory, c \in {"x", "y"} }
    \cup { <<[role |-> "user", content |-> <<"h", "i">>, timestamp |-> 1]>> }

CxMatches == { <<>> } \cup { <<MtEntry(1, k)>> : k \in MtKinds }

\* the chat route
Hi == <<"h", "i">>

LongMessage == [i \in 1..(TitleMax + 1) |-> "x"]

U1 == <<"u", "1">>

S1 == <<"s", "1">>

S2 == <<"s", "2">>

Reply == <<"o", "k">>

Bodies ==
    { [message |-> <<m>>, userId |-> <<U1>>, sessionId |-> <<S1>>] : m \in {Hi, LongMessage} }
    \cup { [message |-> <<>>, userId |-> <<U1>>, sessionId |-> <<S1>>],
           [message |-> <<Hi>>, userId |-> <<<<>>>>, sessionId |-> <<S1>>],
           [message |-> <<Hi>>, userId |-> <<U1>>, sessionId |-> <<>>] }

\* the serialized runs also address a second session
SerialBodies ==
    Bodies \cup { [message |-> <<m>>, userId |-> <<U1>>, sessionId |-> <<S2>>] : m \in {Hi, LongMessage} }

Completions ==
    { [rejected |-> FALSE, ok |-> TRUE,
       choices |-> <<<<[message |-> <<[content |-> Reply]>>]>>>>],
      [rejected |-> TRUE, ok |-> FALSE, choices |-> <<>>],
      [rejected |-> FALSE, ok |-> FALSE, choices |-> <<>>],
      [rejected |-> FALSE, ok |-> TRUE, choices |-> <<>>],
      [rejected |-> FALSE, ok |-> TRUE, choices |-> <<<<>>>>],
      [rejected |-> FALSE, ok |-> TRUE, choices |-> <<<<[message |-> <<>>]>>>>] }

HiFaq ==
    [id |-> 1, question |-> <<"H","i"," ","t","h","e","r","e">>, answer |-> <<"y","o">>,
     category |-> General, keywords |-> <<<<"t","h","e","r","e">>>>, priority |-> 1,
     isActive |-> TRUE]

ChatStores == { <<>>, <<HiFaq>> }

\* the admin route
AdminTexts ==
    { <<"Q",":"," ","F","e","e","?","\n","A",":"," ","f","e","e"," ","f","e","e">>,
      <<"Q",":"," ","a","b","c","\n","A",":"," ","d","e","f","\n","q",":","x","\n","a",":","y">>,
      <<"n","o","n","e">> }

AdminQuestions == { <<"T","h","e"," ","F","e","e","?">>, <<>> }

AdminKeywords ==
    { <<<<"f","e","e">>, <<"f","e","e">>>>,
      <<<<"F","e","e">>>>,
      [i \in 1..(KeywordCap + 1) |-> Word(i)] }

CreateBodies ==
    { [question |-> <<q>>, answer |-> <<<<"p","a","y">>>>, category |-> <<>>,
       keywords |-> k, priority |-> p] :
        q \in AdminQuestions, k \in { <<>> } \cup { <<ks>> : ks \in AdminKeywords },
        p \in {0, 11} }

UpdateBodies ==
    { [question |-> q, answer |-> <<<<"n","e","w"," ","N","e","w">>>>, category |-> <<>>,
       priority |-> 0, isActive |-> a] :
        q \in { <<>>, <<<<"F","e","e","s">>>> }, a \in { <<>>, <<FALSE>> } }

(***************************************************************************)
(* Specifications                                                          *)
(***************************************************************************)

KwIdle == [text |-> <<>>, out |-> <<>>, done |-> FALSE]

PfIdle == [text |-> <<>>, out |-> <<>>, done |-> FALSE]

MtIdle == [message |-> <<>>, lookup |-> LookupFailed, result |-> <<>>, done |-> FALSE]

CxIdle == [messages |-> <<>>, faqMatch |-> <<>>, context |-> <<>>, done |-> FALSE]

\* the state of the server after start-up: empty collections, no request
InitServer ==
    /\ kw = KwIdle /\ pf = PfIdle /\ mt = MtIdle /\ cx = CxIdle
    /\ faqs = <<>> /\ nextFaqId = 1 /\ adminRes = 0
    /\ conversations = <<>> /\ nextConvId = 1
    /\ apiKey = TRUE
    /\ req = [r \in Slots |-> IdleReq]
    /\ started = 0

chatVars == <<conversations, nextConvId, req, started>>

adminVars == <<faqs, nextFaqId, adminRes>>

\* ---- extractKeywords on its own
InitKw ==
    /\ kw \in { [KwIdle EXCEPT !.text = t] : t \in KwInputs }
    /\ pf = PfIdle /\ mt = MtIdle /\ cx = CxIdle
    /\ faqs = <<>> /\ nextFaqId = 1 /\ adminRes = 0
    /\ conversations = <<>> /\ nextConvId = 1
    /\ apiKey = TRUE
    /\ req = [r \in Slots |-> IdleReq]
    /\ started = 0

KwRun ==
    /\ ~kw.done
    /\ kw' = [kw EXCEPT !.out = ExtractKeywords(kw.text), !.done = TRUE]
    /\ UNCHANGED <<pf, mt, cx, apiKey, adminVars, chatVars>>

SpecKw == InitKw /\ [][KwRun]_vars

\* ---- parseFAQText on its own
InitPf ==
    /\ pf \in { [PfIdle EXCEPT !.text = t] : t \in PfInputs }
    /\ kw = KwIdle /\ mt = MtIdle /\ cx = CxIdle
    /\ faqs = <<>> /\ nextFaqId = 1 /\ adminRes = 0
    /\ conversations = <<>> /\ nextConvId = 1
    /\ apiKey = TRUE
    /\ req = [r \in Slots |-> IdleReq]
    /\ started = 0

PfRun ==
    /\ ~pf.done
    /\ pf' = [pf EXCEPT !.out = ParseFAQText(pf.text), !.done = TRUE]
    /\ UNCHANGED <<kw, mt, cx, apiKey, adminVars, chatVars>>

SpecPf == InitPf /\ [][PfRun]_vars

\* ---- findRelevantFAQ on its own, over a stored collection
InitMt ==
    /\ faqs \in MtStores
    /\ mt \in { [MtIdle EXCEPT !.message = m] : m \in MtMessages }
    /\ kw = KwIdle /\ pf = PfIdle /\ cx = CxIdle
    /\ nextFaqId = Len(faqs) + 1 /\ adminRes = 0
    /\ conversations = <<>> /\ nextConvId = 1
    /\ apiKey = TRUE
    /\ req = [r \in Slots |-> IdleReq]
    /\ started = 0

MtRun(lookup) ==
    /\ ~mt.done
    /\ mt' = [mt EXCEPT !.lookup = lookup,
                        !.result = FindRelevantFAQ(mt.message, lookup).faq,
                        !.done = TRUE]
    /\ UNCHANGED <<kw, pf, cx, apiKey, adminVars, chatVars>>

NextMt == \E lookup \in LookupOutcomes(faqs) \cup {LookupFailed} : MtRun(lookup)

SpecMt == InitMt /\ [][NextMt]_vars

\* ---- context assembly on its own
InitCx ==
    /\ cx \in { [CxIdle EXCEPT !.messages = h, !.faqMatch = m] :
                  h \in CxHistories, m \in CxMatches }
    /\ kw = KwIdle /\ pf = PfIdle /\ mt = MtIdle
    /\ faqs = <<>> /\ nextFaqId = 1 /\ adminRes = 0
    /\ conversations = <<>> /\ nextConvId = 1
    /\ apiKey = TRUE
    /\ req = [r \in Slots |-> IdleReq]
    /\ started = 0

CxRun ==
    /\ ~cx.done
    /\ cx' = [cx EXCEPT !.context = BuildContext(cx.faqMatch, cx.messages), !.done = TRUE]
    /\ UNCHANGED <<kw, pf, mt, apiKey, adminVars, chatVars>>

SpecCx == InitCx /\ [][CxRun]_vars

\* ---- the admin route
Upload(file, category) ==
    /\ UploadFaqs(file, category)
    /\ UNCHANGED <<kw, pf, mt, cx, apiKey, chatVars>>

Create(body) ==
    /\ CreateFaq(body)
    /\ UNCHANGED <<kw, pf, mt, cx, apiKey, chatVars>>

Update(id, body) ==
    /\ UpdateFaq(id, body)
    /\ UNCHANGED <<kw, pf, mt, cx, apiKey, chatVars>>

Delete(id) ==
    /\ DeleteFaq(id)
    /\ UNCHANGED <<kw, pf, mt, cx, apiKey, chatVars>>

NextAdmin ==
    \/ \E file \in { <<>> } \cup { <<t>> : t \in AdminTexts } :
          /\ nextFaqId + (IF file = <<>> THEN 0 ELSE Len(ParseFAQText(file[1]))) <= MaxFaqIds + 1
          /\ Upload(file, <<>>)
    \/ \E body \in CreateBodies : nextFaqId <= MaxFaqIds /\ Create(body)
    \/ \E id \in 1..MaxFaqIds, body \in UpdateBodies : Update(id, body)
    \/ \E id \in 1..MaxFaqIds : Delete(id)

SpecAdmin == InitServer /\ [][NextAdmin]_vars

\* ---- the chat route, requests on a session running concurrently
InitChat ==
    /\ kw = KwIdle /\ pf = PfIdle /\ mt = MtIdle /\ cx = CxIdle
    /\ faqs \in ChatStores /\ nextFaqId = Len(faqs) + 1 /\ adminRes = 0
    /\ conversations = <<>> /\ nextConvId = 1
    /\ apiKey \in BOOLEAN
    /\ req = [r \in Slots |-> IdleReq]
    /\ started = 0

chatFrame == <<kw, pf, mt, cx, apiKey, adminVars>>

\* no other request for the same (userId, sessionId) is under way
Serialized(r, body) ==
    \A o \in Slots \ {r} :
       req[o].pc = "idle" \/ <<req[o].userId>> # body.userId \/ <<req[o].sessionId>> # body.sessionId

NextAfterReceive ==
    \/ \E r \in Slots : FindOneReturns(r) /\ UNCHANGED chatFrame
    \/ \E r \in Slots : FindOneFails(r) /\ UNCHANGED chatFrame
    \/ \E r \in Slots, lookup \in LookupOutcomes(faqs) \cup {LookupFailed} :
          FaqFindReturns(r, lookup) /\ UNCHANGED chatFrame
    \/ \E r \in Slots, c \in Completions : CompletionReturns(r, c) /\ UNCHANGED chatFrame
    \/ \E r \in Slots : SaveReturns(r) /\ UNCHANGED chatFrame
    \/ \E r \in Slots : SaveFails(r) /\ UNCHANGED chatFrame

Next ==
    \/ \E r \in Slots, body \in Bodies :
          started < MaxExchanges /\ Receive(r, body) /\ UNCHANGED chatFrame
    \/ NextAfterReceive

Spec == InitChat /\ [][Next]_vars

\* ---- the chat route, the caller serializing the requests of a session
NextSerial ==
    \/ \E r \in Slots, body \in SerialBodies :
          started < MaxExchanges /\ Serialized(r, body) /\ Receive(r, body) /\ UNCHANGED chatFrame
    \/ NextAfterReceive

SpecSerial == InitChat /\ [][NextSerial]_vars

(***************************************************************************)
(* Properties                                                              *)
(***************************************************************************)

NoDuplicates(xs) == \A i, j \in 1..Len(xs) : xs[i] = xs[j] => i = j

FirstPos(xs, x) == CHOOSE i \in 1..Len(xs) : xs[i] = x /\ \A j \in 1..(i - 1) : xs[j] # x

\* the tokens of a text that may become keywords: longer than 2, not a stop word
KeptTokens(text) == { w \in Range(KeywordSplit(text)) : Len(w) > 2 /\ w \notin StopWords }

\* C6: extractKeywords returns at most 10 tokens, in first-seen order, without
\* duplicates, stop words or tokens of length <= 2: they are the first
\* min(10, number of distinct kept tokens) kept tokens of the text; the empty text
\* gives the empty result; and extracting from the space-joined result gives the
\* result again.
C6_ExtractKeywords ==
    kw.done =>
      LET toks == KeywordSplit(kw.text)
          kept == KeptTokens(kw.text)
          out == kw.out
      IN  /\ Len(out) <= 10
          /\ NoDuplicates(out)
          /\ \A i \in 1..Len(out) : Len(out[i]) > 2 /\ out[i] \notin StopWords /\ out[i] \in kept
          /\ \A i, j \in 1..Len(out) : i < j => FirstPos(toks, out[i]) < FirstPos(toks, out[j])
          /\ Len(out) = Min(10, Cardinality(kept))
          /\ \A i \in 1..Len(out) : \A w \in kept :
                FirstPos(toks, w) < FirstPos(toks, out[i]) => w \in Range(out)
          /\ (kw.text = <<>> => out = <<>>)
          /\ ExtractKeywords(Join(out, <<" ">>)) = out

\* a text with more than 10 distinct kept tokens and a repeated one was cut to 10
C6_Witness ==
    /\ kw.done
    /\ Cardinality(KeptTokens(kw.text)) > 10
    /\ Len(kw.out) = 10
    /\ ~NoDuplicates(SelectSeq(KeywordSplit(kw.text), LAMBDA w : Len(w) > 2))

\* ---- parseFAQText, stated over the segments of the input

\* the positions of the Q-markers among the lines
QMarkers(lines) == { i \in 1..Len(lines) : IsQLine(lines[i]) }

\* the segment of the Q-marker at i: up to the next Q-marker or the end of input
Segment(lines, i) ==
    LET later == { j \in QMarkers(lines) : j > i }
        end == IF later = {} THEN Len(lines) ELSE (CHOOSE j \in later : \A k \in later : j <= k) - 1
    IN  SubSeq(lines, i, end)

\* the question a segment accumulates: the rest of the Q line and, if that is not
\* empty, the lines before the first A-marker
SegmentQuestion(seg) ==
    LET as == { j \in 1..Len(seg) : IsALine(seg[j]) }
        stop == IF as = {} THEN Len(seg) ELSE (CHOOSE j \in as : \A k \in as : j <= k) - 1
    IN  IF StripQ(seg[1]) = <<>> THEN <<>>
        ELSE Join(<<StripQ(seg[1])>> \o SubSeq(seg, 2, stop), <<" ">>)

\* the answer a segment accumulates: the rest of its last A line and the lines after it
SegmentAnswer(seg) ==
    LET as == { j \in 1..Len(seg) : IsALine(seg[j]) }
        last == CHOOSE j \in as : \A k \in as : k <= j
    IN  IF as = {} THEN <<>>
        ELSE Trim(Join(<<StripA(seg[last])>> \o SubSeq(seg, last + 1, Len(seg)), <<" ">>))

Complete(seg) == SegmentQuestion(seg) # <<>> /\ SegmentAnswer(seg) # <<>>

\* the pairs of the complete segments, in input order
RECURSIVE SegmentPairs(_, _)
SegmentPairs(lines, i) ==
    IF i > Len(lines) THEN <<>>
    ELSE IF IsQLine(lines[i]) /\ Complete(Segment(lines, i))
    THEN <<[question |-> SegmentQuestion(Segment(lines, i)),
            answer |-> SegmentAnswer(Segment(lines, i))]>> \o SegmentPairs(lines, i + 1)
    ELSE SegmentPairs(lines, i + 1)

\* C3: parseFAQText emits, in input order, exactly one pair per Q-marker whose
\* segment accumulated a non-empty question and a non-empty answer, and nothing
\* else; every emitted pair has a non-empty question and answer; and when only the
\* trailing question lacks an answer the output has one pair fewer than Q-markers.
C3_ParseFAQText ==
    pf.done =>
      LET lines == FaqLines(pf.text)
          qs == QMarkers(lines)
          complete == { i \in qs : Complete(Segment(lines, i)) }
      IN  /\ pf.out = SegmentPairs(lines, 1)
          /\ Len(pf.out) = Cardinality(complete)
          /\ \A k \in 1..Len(pf.out) : pf.out[k].question # <<>> /\ pf.out[k].answer # <<>>
          /\ (/\ qs # {}
              /\ \A i \in qs : (i \in complete) <=> (\E j \in qs : j > i))
             => Len(pf.out) = Cardinality(qs) - 1

\* two Q-markers, the first with an answer, the trailing one without: one pair
C3_Witness ==
    /\ pf.done
    /\ Cardinality(QMarkers(FaqLines(pf.text))) = 2
    /\ ~IsALine(FaqLines(pf.text)[Len(FaqLines(pf.text))])
    /\ IsQLine(FaqLines(pf.text)[Len(FaqLines(pf.text))])
    /\ Len(pf.out) = 1

\* C1: the message list sent to the completion API is the base system prompt, then
\* one FAQ system message exactly when a FAQ matched, then the last min(10, n)
\* history messages in their order; its length is 1 + (1 if matched) + min(10, n);
\* 13 messages without a match give 11 (items 4-13), and 'hi' alone on an empty
\* history gives [system, user('hi')].
C1_ContextAssembly ==
    cx.done =>
      LET n == Len(cx.messages)
          m == IF cx.faqMatch # <<>> THEN 1 ELSE 0
          k == Min(10, n)
          ctx == cx.context
      IN  /\ Len(ctx) = 1 + m + k
          /\ ctx[1] = [role |-> "system", content |-> SYSTEM_PROMPT]
          /\ m = 1 => /\ ctx[2].role = "system"
                      /\ ctx[2].content = RelevantFaqQ \o cx.faqMatch[1].question
                                          \o RelevantFaqA \o cx.faqMatch[1].answer
          /\ Cardinality({ i \in 1..Len(ctx) : ctx[i].role = "system" }) = 1 + m
          /\ \A j \in 1..k :
                ctx[1 + m + j] = [role |-> cx.messages[n - k + j].role,
                                  content |-> cx.messages[n - k + j].content]
          /\ (n = 13 /\ m = 0) => (Len(ctx) = 11 /\ ctx[2].content = cx.messages[4].content
                                   /\ ctx[11].content = cx.messages[13].content)
          /\ (n = 1 /\ m = 0 /\ cx.messages[1].content = <<"h", "i">>)
             => ctx = << [role |-> "system", content |-> SYSTEM_PROMPT],
                         [role |-> "user", content |-> <<"h", "i">>] >>

\* 13 messages and a matched FAQ: 12 messages are sent
C1_Witness ==
    /\ cx.done
    /\ Len(cx.messages) = 13
    /\ cx.faqMatch # <<>>
    /\ Len(cx.context) = 12

\* the matching condition as the claim words it
ClaimMatch(message, faq) ==
    \/ \E k \in 1..Len(faq.keywords) : Includes(ToLowerCase(message), faq.keywords[k])
    \/ Includes(ToLowerCase(message), ToLowerCase(faq.question))
    \/ Includes(ToLowerCase(faq.question), ToLowerCase(message))

\* cands is a list of the (at most 10) highest-priority active entries of the
\* store, in descending priority
TopActive(store, cands) ==
    /\ \A i \in 1..Len(cands) : cands[i].isActive /\ cands[i] \in Range(store)
    /\ NoDuplicates(cands)
    /\ Len(cands) = Min(10, Cardinality({ i \in 1..Len(store) : store[i].isActive }))
    /\ \A i, j \in 1..Len(cands) : i < j => cands[i].priority >= cands[j].priority
    /\ \A i \in 1..Len(store) :
          (store[i].isActive /\ store[i] \notin Range(cands))
          => \A j \in 1..Len(cands) : cands[j].priority >= store[i].priority

\* C2: findRelevantFAQ returns the first entry, in descending-priority order among
\* at most the 10 highest-priority active entries, that satisfies one of the three
\* conditions; it returns none exactly when no candidate does; it never returns an
\* inactive entry or one outside the candidates.
C2_FindRelevantFAQ ==
    (mt.done /\ mt.lookup.ok) =>
      LET cands == mt.lookup.docs
          hit(i) == ClaimMatch(mt.message, cands[i])
      IN  /\ TopActive(faqs, cands)
          /\ (mt.result = <<>>) <=> (\A i \in 1..Len(cands) : ~hit(i))
          /\ mt.result # <<>> =>
                /\ mt.result[1].isActive
                /\ \E i \in 1..Len(cands) :
                      /\ mt.result[1] = cands[i]
                      /\ hit(i)
                      /\ \A j \in 1..(i - 1) : ~hit(j)

\* two candidates match and the one of higher priority is returned, while a
\* matching active entry is left outside the 10 candidates
C2_Witness ==
    /\ mt.done /\ mt.lookup.ok
    /\ mt.result # <<>>
    /\ \E i, j \in 1..Len(mt.lookup.docs) :
          /\ i < j
          /\ mt.result[1] = mt.lookup.docs[i]
          /\ ClaimMatch(mt.message, mt.lookup.docs[j])
    /\ \E i \in 1..Len(faqs) :
          /\ faqs[i].isActive
          /\ ClaimMatch(mt.message, faqs[i])
          /\ faqs[i] \notin Range(mt.lookup.docs)

\* ---- the chat route

Last(xs) == xs[Len(xs)]

\* the title the claim gives a first user message
ClaimTitle(message) ==
    IF Len(message) > 50 THEN SubSeq(message, 1, 50) \o <<".", ".", ".">> ELSE message

\* every stored conversation carries the title of its first user message; a
\* conversation in a handler has no title below two messages, and its title is
\* assigned only when it holds exactly two
TitleState ==
    /\ \A i \in 1..Len(conversations) :
          /\ Len(conversations[i].messages) >= 2
          /\ conversations[i].messages[1].role = "user"
          /\ conversations[i].title = <<ClaimTitle(conversations[i].messages[1].content)>>
    /\ \A r \in Slots : req[r].conversation # <<>> =>
          LET c == req[r].conversation[1]
          IN  /\ Len(c.messages) < 2 => c.title = <<>>
              /\ c.titleSet => Len(c.messages) = 2 /\ c.messages[1].content = req[r].message
              /\ Len(c.messages) >= 2 => c.title = <<ClaimTitle(c.messages[1].content)>>

\* no step changes the title of a stored conversation
TitleKept ==
    \A i \in 1..Len(conversations) :
       /\ i <= Len(conversations')
       /\ conversations'[i].title = conversations[i].title

\* C4: the title is set once, at the exchange that brings the sequence to exactly
\* two messages, to the first user message (its first 50 characters and an ellipsis
\* if it is longer); no later exchange changes it, and a conversation with fewer
\* than two messages has no title.
C4_TitleSetOnce == []TitleState /\ [][TitleKept]_vars

\* a stored conversation that went through a second exchange still has the
\* truncated title of its long first message
C4_Witness ==
    \E i \in 1..Len(conversations) :
       /\ Len(conversations[i].messages) >= 4
       /\ Len(conversations[i].messages[1].content) > 50
       /\ conversations[i].messages[3].content # conversations[i].messages[1].content
       /\ Len(conversations[i].title[1]) = 53

\* the context of an exchange whose FAQ lookup failed: the one of an exchange
\* without a match
FailedLookupState ==
    \A r \in Slots : req[r].faqFailed =>
       LET c == req[r].conversation[1]
           history == IF req[r].pc = "save" THEN SubSeq(c.messages, 1, Len(c.messages) - 1)
                      ELSE c.messages
           k == Min(10, Len(history))
       IN  /\ req[r].pc \in {"fetch", "save"}
           /\ req[r].faqMatch = <<>>
           /\ Len(req[r].context) = 1 + k
           /\ \A i \in 1..Len(req[r].context) : (req[r].context[i].role = "system") <=> (i = 1)
           /\ \A j \in 1..k :
                 req[r].context[1 + j].content = history[Len(history) - k + j].content
           /\ req[r].pc = "save" =>
                 Last(c.messages) = [role |-> "assistant", content |-> Reply, timestamp |-> req[r].seq]

\* the lookup never ends the exchange, and after a failed lookup a successful
\* completion is stored and returned
FailedLookupStep ==
    \A r \in Slots :
       /\ (req[r].pc = "faqFind" /\ req'[r] # req[r]) => req'[r].pc = "fetch"
       /\ (req[r].pc = "save" /\ req[r].faqFailed /\ req'[r].res.status = 200) =>
             /\ req'[r].res.response = <<Reply>>
             /\ \E i \in 1..Len(conversations') :
                   /\ conversations'[i].id = req'[r].res.conversationId
                   /\ Len(conversations'[i].messages) >= 2
                   /\ Last(conversations'[i].messages).role = "assistant"
                   /\ Last(conversations'[i].messages).content = Reply
                   /\ conversations'[i].messages[Len(conversations'[i].messages) - 1].content
                        = req[r].message

\* C7: when the FAQ lookup fails the matcher yields no match instead of
\* propagating: the exchange goes on with a context without FAQ system message, and
\* a successful completion is appended and returned as in an exchange without match.
C7_LookupFailureDegrades == []FailedLookupState /\ [][FailedLookupStep]_vars

\* the lookup failed although the store holds an entry matching the message, and
\* the reply has been appended
C7_Witness ==
    \E r \in Slots :
       /\ req[r].faqFailed
       /\ req[r].pc = "save"
       /\ \E i \in 1..Len(faqs) : faqs[i].isActive /\ ClaimMatch(req[r].message, faqs[i])

\* Idle -> UserMessageAppended -> ContextBuilt -> ReplyAppended -> Idle, a failure
\* leading back to Idle
ExchangeOrder ==
    { <<"idle", "idle">>, <<"idle", "findOne">>, <<"findOne", "faqFind">>,
      <<"findOne", "idle">>, <<"faqFind", "fetch">>, <<"fetch", "save">>,
      <<"fetch", "idle">>, <<"save", "idle">> }

ExchangeState ==
    \A r \in Slots :
       /\ req[r].pc \in {"idle", "findOne"} => req[r].conversation = <<>> /\ req[r].context = <<>>
       /\ req[r].pc = "faqFind" =>
             /\ Last(req[r].conversation[1].messages).role = "user"
             /\ Last(req[r].conversation[1].messages).content = req[r].message
             /\ req[r].context = <<>>
       /\ req[r].pc = "fetch" =>
             /\ Last(req[r].conversation[1].messages).role = "user"
             /\ Last(req[r].conversation[1].messages).content = req[r].message
             /\ Last(req[r].context) = [role |-> "user", content |-> req[r].message]
       /\ req[r].pc = "save" =>
             LET ms == req[r].conversation[1].messages
             IN  /\ Last(ms).role = "assistant"
                 /\ ms[Len(ms) - 1].role = "user" /\ ms[Len(ms) - 1].content = req[r].message
                 /\ Last(req[r].context) = [role |-> "user", content |-> req[r].message]
                 /\ req[r].conversation[1].titleSet <=> (Len(ms) = 2)

ExchangeStep ==
    \A r \in Slots : req'[r] # req[r] =>
       /\ <<req[r].pc, req'[r].pc>> \in ExchangeOrder
       /\ req'[r].pc = "idle" => req'[r].res.status \in {200, 400, 500}
       /\ (req[r].pc # "save" /\ req'[r].pc = "idle") => req'[r].res.status \in {400, 500}
       /\ req'[r].res.status = 200 =>
             /\ req[r].pc = "save"
             /\ \E i \in 1..Len(conversations') :
                   /\ conversations'[i].id = req[r].conversation[1].id
                   /\ Last(conversations'[i].messages) = Last(req[r].conversation[1].messages)

OnePerKey ==
    \A i, j \in 1..Len(conversations) :
       (conversations[i].userId = conversations[j].userId
        /\ conversations[i].sessionId = conversations[j].sessionId) => i = j

\* the stored message sequences only grow by appending
OnlyAppended ==
    \A i \in 1..Len(conversations) :
       /\ i <= Len(conversations')
       /\ Len(conversations[i].messages) <= Len(conversations'[i].messages)
       /\ SubSeq(conversations'[i].messages, 1, Len(conversations[i].messages))
            = conversations[i].messages

\* C9: for every interleaving of exchanges, two concurrent first messages on one
\* session included, at most one stored conversation exists per (userId, sessionId)
\* and its message sequence only grows by appending.
C9_OneConversationPerKey == []OnePerKey /\ [][OnlyAppended]_vars

Alternates(ms) ==
    /\ Len(ms) > 0
    /\ Len(ms) % 2 = 0
    /\ \A i \in 1..Len(ms) : ms[i].role = IF i % 2 = 1 THEN "user" ELSE "assistant"

LedgerState == \A i \in 1..Len(conversations) : Alternates(conversations[i].messages)

\* only an exchange that answers 200 changes the stored conversations
LedgerStep ==
    /\ conversations' # conversations =>
          \E r \in Slots : req[r].pc = "save" /\ req'[r].res.status = 200
    /\ \A r \in Slots :
          (req'[r] # req[r] /\ req'[r].pc = "idle" /\ req'[r].res.status # 200)
          => conversations' = conversations

\* C10: with the exchanges of a session serialized, a failing exchange leaves the
\* stored ledger unchanged (no conversation created, no user message stored, no
\* title set), so every stored conversation has an even, non-zero number of
\* messages alternating user, assistant from a user message.
C10_FailureLeavesLedger == []LedgerState /\ [][LedgerStep]_vars

\* an exchange failed after two exchanges were stored
C10_Witness ==
    /\ \E r \in Slots : req[r].pc = "idle" /\ req[r].res.status = 500
    /\ Len(conversations) = 1
    /\ Len(conversations[1].messages) = 4

\* ---- the admin route

IsLowerCase(w) == ToLowerCase(w) = w

\* C5: after any sequence of upload, creation, update and delete, the keywords of
\* every stored FAQ entry are lowercase, without duplicates, and at most 10.
C5_KeywordsInvariant ==
    \A i \in 1..Len(faqs) :
       /\ \A k \in 1..Len(faqs[i].keywords) : IsLowerCase(faqs[i].keywords[k])
       /\ NoDuplicates(faqs[i].keywords)
       /\ Len(faqs[i].keywords) <= 10

====
